---- MODULE Spec2Model ----
(***************************************************************************)
(* Model of merge.py: the start-up check of output/<bookId> and            *)
(* merge_htmls_to_pdf, which resolves a book directory, enumerates and     *)
(* sorts its *.html files, resolves the page size, renders every file and  *)
(* writes the concatenated pages as one PDF.                               *)
(*                                                                         *)
(* File names are sequences of code points, so that Python's string order  *)
(* and glob's pattern match are computed rather than assumed.  The         *)
(* rendering engine (weasyprint) is outside the repository: it is a        *)
(* deterministic function from a file to a page count, or to a failure.    *)
(***************************************************************************)
EXTENDS Integers, Sequences, FiniteSets, TLC

(* ---------------------------- bounds ----------------------------------- *)
\* Largest number of pages the engine lays one file out to.
MaxPages == 2
\* Number of times merge_htmls_to_pdf is called with the same arguments.
MaxRuns == 2

\* The engine raises on a file whose page count is EngineFails.
EngineFails == 0

(* --------------------------- file names -------------------------------- *)
\* "10.html", "2.html", ".2.html", "2.htm" as code points.
F10html == <<49, 48, 46, 104, 116, 109, 108>>
F2html == <<50, 46, 104, 116, 109, 108>>
FHidden == <<46, 50, 46, 104, 116, 109, 108>>
F2htm == <<50, 46, 104, 116, 109>>
FileNames == {F10html, F2html, FHidden, F2htm}

\* Entries that may exist under the base directory "output".
Books == {"b1", "b2"}
PdfName(b) == b \o ".pdf"
EntryNames == Books \cup {PdfName(b) : b \in Books}
NoBookId == "<None>"
OutputDir == "output"
\* A base directory that does not exist.
MissingDir == "missing"

(* ------------------- Python / library helpers -------------------------- *)
\* Python's str.__lt__: code point by code point, a proper prefix is less.
RECURSIVE LexLess(_, _)
LexLess(a, b) ==
  IF a = <<>> THEN b # <<>>
  ELSE IF b = <<>> THEN FALSE
  ELSE IF Head(a) # Head(b) THEN Head(a) < Head(b)
  ELSE LexLess(Tail(a), Tail(b))

\* ".html": the literal tail of the pattern "*.html".
HtmlSuffix == <<46, 104, 116, 109, 108>>

EndsWith(s, suf) ==
  /\ Len(s) >= Len(suf)
  /\ SubSeq(s, Len(s) - Len(suf) + 1, Len(s)) = suf

\* glob's match of one name against "*.html": fnmatch on the name, and a
\* name starting with "." is hidden from a pattern that does not.
GlobMatch(name) == EndsWith(name, HtmlSuffix) /\ Head(name) # 46

\* The elements of S in descending order (sorted with reverse=True).
RECURSIVE SortedDescending(_)
SortedDescending(S) ==
  IF S = {} THEN <<>>
  ELSE LET mx == CHOOSE x \in S : \A y \in S \ {x} : LexLess(y, x)
       IN <<mx>> \o SortedDescending(S \ {mx})
\* sorted(): the ascending sequence of the elements of S.
RECURSIVE Sorted(_)
Sorted(S) ==
  IF S = {} THEN <<>>
  ELSE LET mn == CHOOSE x \in S : \A y \in S \ {x} : LexLess(x, y)
       IN <<mn>> \o Sorted(S \ {mn})

\* Python truthiness of book_id: None and "" are falsy.
Truthy(b) == b # NoBookId /\ b # ""

(* ------------------------------ state ---------------------------------- *)
VARIABLES
  baseKind,    \* "dir" or "absent": the base directory "output"
  kind,        \* entry name -> "absent" | "file" | "dir", under the base
  order,       \* iteration order of the base directory's entries
  contents,    \* entry name -> set of file names in that directory
  engine,      \* file name -> page count the engine renders it to
  bookId,      \* book.bookId, read at import
  a_output_dir,\* argument output_dir
  a_book_id,   \* argument book_id
  a_page_size, \* argument page_size
  a_margin,    \* argument margin
  pc,          \* position in the program
  run,         \* number of the current call of merge_htmls_to_pdf
  book_id,     \* local book_id
  book_dir,    \* local book_dir (entry name under the base)
  html_files,  \* local html_files
  size_str,    \* local size_str
  page_css,    \* local page_css
  pdf_path,    \* local pdf_path
  documents,   \* local documents
  all_pages,   \* local all_pages
  renders,     \* render calls made in this run, in order
  first_render,\* local first_render
  writes,      \* write_pdf calls made in this run, in order
  out,         \* messages printed or logged in this run
  prev         \* outcome of the previous call

fsvars == <<baseKind, kind, order, contents, engine>>
argvars == <<bookId, a_output_dir, a_book_id, a_page_size, a_margin>>
locals == <<book_id, book_dir, html_files, size_str, page_css, pdf_path,
            documents, all_pages, renders, first_render, writes>>
vars == <<fsvars, argvars, pc, run, locals, out, prev>>

(* ----------------------- page-size resolution -------------------------- *)
\* A Python number: an int, or a float held in tenths (215.9 is 2159).
PyInt(n) == [k |-> "int", v |-> n]
PyFloat(tenths) == [k |-> "float", v |-> tenths]

Digit(d) == <<"0", "1", "2", "3", "4", "5", "6", "7", "8", "9">>[d + 1]

\* str() of a non-negative int.
RECURSIVE IntStr(_)
IntStr(n) == IF n < 10 THEN Digit(n) ELSE IntStr(n \div 10) \o Digit(n % 10)

\* What an f-string writes for {width}: str() of an int, repr() of a float.
NumStr(x) ==
  IF x.k = "int" THEN IntStr(x.v)
  ELSE IntStr(x.v \div 10) \o "." \o Digit(x.v % 10)

PresetNames == {"A4", "A5", "Letter", "Legal", "Tabloid"}
PAGE_SIZES ==
  [n \in PresetNames |->
     CASE n = "A4" -> <<PyInt(210), PyInt(297)>>
       [] n = "A5" -> <<PyInt(148), PyInt(210)>>
       [] n = "Letter" -> <<PyFloat(2159), PyFloat(2794)>>
       [] n = "Legal" -> <<PyFloat(2159), PyFloat(3556)>>
       [] n = "Tabloid" -> <<PyFloat(2794), PyFloat(4318)>>]

\* The argument page_size: None, a str, or a (width, height) pair.
SizeNone == [t |-> "none", s |-> "", w |-> PyInt(0), h |-> PyInt(0)]
SizeStr(s) == [t |-> "str", s |-> s, w |-> PyInt(0), h |-> PyInt(0)]
SizePair(w, h) == [t |-> "pair", s |-> "", w |-> w, h |-> h]

\* The resolution without the PAGE_SIZES lookup of lines 76-78.
ResolveSizeNoPreset(ps) ==
  IF ps.t = "none" THEN "595px 841px"
  ELSE IF ps.t = "str" THEN ps.s
  ELSE NumStr(ps.w) \o "mm " \o NumStr(ps.h) \o "mm"
\* Lines 68-83: the size string of a page_size.
ResolveSize(ps) ==
  IF ps.t = "none" THEN "595px 841px"
  ELSE IF ps.t = "str" THEN
    IF ps.s \in DOMAIN PAGE_SIZES
    THEN NumStr(PAGE_SIZES[ps.s][1]) \o "mm " \o NumStr(PAGE_SIZES[ps.s][2]) \o "mm"
    ELSE ps.s
  ELSE NumStr(ps.w) \o "mm " \o NumStr(ps.h) \o "mm"

\* Lines 86-95: the style sheet built from the size string and the margin.
NoCss == [size |-> "", margin |-> "", html_body_margin |-> "", html_body_padding |-> ""]
MakeCss(size, margin) ==
  [size |-> size, margin |-> margin, html_body_margin |-> "0", html_body_padding |-> "0"]

(* --------------------------- file system ------------------------------- *)
\* A path under a base directory: Path(base) / name.
PathOf(base, name) == [base |-> base, name |-> name]
NoPath == PathOf("", "")

\* Only "output" may exist as a base directory; any other base is absent.
BaseIsDir(base) == base = OutputDir /\ baseKind = "dir"
KindOf(p) ==
  IF BaseIsDir(p.base) /\ p.name \in DOMAIN kind THEN kind[p.name] ELSE "absent"

\* os.path.exists / Path.exists of p; <base>/"" is the base itself.
PathExists(p) == BaseIsDir(p.base) /\ (p.name = "" \/ KindOf(p) # "absent")

\* Line 45 without its is_dir() filter: every entry, in iteration order.
SubdirsUnfiltered(base, ord) == [i \in 1..Len(ord) |-> PathOf(base, ord[i])]
\* Line 45: the entries of the base directory that are directories, in
\* iteration order.
Subdirs(base, ord) ==
  LET ds == SelectSeq(ord, LAMBDA e : KindOf(PathOf(base, e)) = "dir")
  IN [i \in 1..Len(ds) |-> PathOf(base, ds[i])]

\* The names glob lists in directory d: nothing unless d is a directory.
Listdir(d) == IF KindOf(d) = "dir" THEN contents[d.name] ELSE {}

\* Line 60: sorted(glob.glob(book_dir / "*.html")).  Every path has the same
\* prefix str(book_dir) + "/", so the paths sort as their names do.
HtmlFilesOf(d) == Sorted({f \in Listdir(d) : GlobMatch(f)})

\* doc.render(...).pages: the pages the engine lays file f out to.
PagesOf(f) == [k \in 1..engine[f] |-> [file |-> f, n |-> k]]

\* The directory after a new entry e appears: the entries already there keep
\* their relative order, the new one takes any place.
InsertAt(ord, i, e) == SubSeq(ord, 1, i) \o <<e>> \o SubSeq(ord, i + 1, Len(ord))
Range(s) == {s[i] : i \in 1..Len(s)}
Last(q) == q[Len(q)]
OrdersAfterCreate(ord, e) ==
  IF e \in Range(ord) THEN {ord} ELSE {InsertAt(ord, i, e) : i \in 0..Len(ord)}

(* ------------------------------ inputs --------------------------------- *)
\* Listings a book directory is given in the initial states.
Listings ==
  { {}, {F2htm, FHidden}, {F2html}, {F10html, F2html, FHidden, F2htm} }

OutputDirArgs == {OutputDir, MissingDir}
BookIdArgs == {NoBookId, ""} \cup Books
PageSizeArgs == {SizeNone, SizeStr("A4"), SizePair(PyInt(100), PyInt(200))}
MarginArgs == {"0"}

NoRender == [id |-> 0, pages |-> <<>>]
NoPrev == [pc |-> "none", book_id |-> "", book_dir |-> NoPath, html_files |-> <<>>,
           writes |-> <<>>, out |-> <<>>]

\* Locals of a call that has just been entered.
EnterCall ==
  /\ book_id' = a_book_id
  /\ book_dir' = NoPath
  /\ html_files' = <<>>
  /\ size_str' = ""
  /\ page_css' = NoCss
  /\ pdf_path' = NoPath
  /\ documents' = <<>>
  /\ all_pages' = <<>>
  /\ renders' = <<>>
  /\ first_render' = NoRender
  /\ writes' = <<>>

\* The orders a directory can list the present entries in.
OrdersOf(k) ==
  LET present == {e \in EntryNames : k[e] # "absent"}
  IN {s \in UNION {[1..n -> present] : n \in {Cardinality(present)}} :
        Range(s) = present}

InitFs ==
  /\ baseKind \in {"dir", "absent"}
  /\ kind \in [EntryNames -> {"absent", "file", "dir"}]
  /\ \A b \in Books : kind[PdfName(b)] = "absent"
  /\ baseKind = "absent" => \A e \in EntryNames : kind[e] = "absent"
  /\ order \in OrdersOf(kind)
  /\ contents \in [EntryNames -> Listings]
  /\ \A e \in EntryNames : kind[e] # "dir" => contents[e] = {}
  /\ engine \in [FileNames -> EngineFails..MaxPages]
  /\ engine[FHidden] = 1 /\ engine[F2htm] = 1

InitLocals ==
  /\ book_id = NoBookId
  /\ book_dir = NoPath
  /\ html_files = <<>>
  /\ size_str = ""
  /\ page_css = NoCss
  /\ pdf_path = NoPath
  /\ documents = <<>>
  /\ all_pages = <<>>
  /\ renders = <<>>
  /\ first_render = NoRender
  /\ writes = <<>>

Init ==
  /\ InitFs
  /\ bookId \in {""} \cup Books
  /\ a_output_dir \in OutputDirArgs
  /\ a_book_id \in BookIdArgs
  /\ a_page_size \in PageSizeArgs
  /\ a_margin \in MarginArgs
  /\ pc = "startup"
  /\ run = 0
  /\ InitLocals
  /\ out = <<>>
  /\ prev = NoPrev

(* ------------------------------ start-up ------------------------------- *)
\* The start-up check without its exit(): the error is logged and the call
\* at the end of the script is made all the same.
StartupNoExit ==
  /\ pc = "startup"
  /\ ~PathExists(PathOf(OutputDir, bookId))
  /\ out' = Append(out, "Output folder does not exist")
  /\ EnterCall
  /\ run' = 1
  /\ pc' = "resolve"
  /\ UNCHANGED <<fsvars, argvars, prev>>

\* Lines 15-17: output/<bookId> does not exist: log the error and exit.
StartupExit ==
  /\ pc = "startup"
  /\ ~PathExists(PathOf(OutputDir, bookId))
  /\ out' = Append(out, "Output folder does not exist")
  /\ pc' = "exited"
  /\ UNCHANGED <<fsvars, argvars, run, locals, prev>>

\* Lines 15, 27, 126: the check passes and merge_htmls_to_pdf is called (by
\* the script with book_id = bookId, by an importer with any arguments).
StartupCall ==
  /\ pc = "startup"
  /\ PathExists(PathOf(OutputDir, bookId))
  /\ EnterCall
  /\ run' = 1
  /\ pc' = "resolve"
  /\ UNCHANGED <<fsvars, argvars, out, prev>>

(* ----------------------- merge_htmls_to_pdf ---------------------------- *)
\* Lines 41-42: a book ID is given.
ResolveGiven ==
  /\ pc = "resolve"
  /\ Truthy(book_id)
  /\ book_dir' = PathOf(a_output_dir, book_id)
  /\ pc' = "check_dir"
  /\ UNCHANGED <<fsvars, argvars, run, book_id, html_files, size_str, page_css,
                 pdf_path, documents, all_pages, renders, first_render, writes,
                 out, prev>>

\* Line 45 on a base directory that does not exist: iterdir raises.
ResolveIterdirRaises ==
  /\ pc = "resolve"
  /\ ~Truthy(book_id)
  /\ ~BaseIsDir(a_output_dir)
  /\ pc' = "raised"
  /\ UNCHANGED <<fsvars, argvars, run, locals, out, prev>>

\* Lines 45-48: no book ID and no subdirectory.
ResolveNoSubdirs ==
  /\ pc = "resolve"
  /\ ~Truthy(book_id)
  /\ BaseIsDir(a_output_dir)
  /\ Subdirs(a_output_dir, order) = <<>>
  /\ out' = Append(out, "No subdirectories found")
  /\ pc' = "aborted"
  /\ UNCHANGED <<fsvars, argvars, run, locals, prev>>

\* The last subdirectory taken instead of the first.
ResolveLastSubdir ==
  /\ pc = "resolve"
  /\ ~Truthy(book_id)
  /\ BaseIsDir(a_output_dir)
  /\ Subdirs(a_output_dir, order) # <<>>
  /\ book_dir' = Last(Subdirs(a_output_dir, order))
  /\ book_id' = Last(Subdirs(a_output_dir, order)).name
  /\ pc' = "check_dir"
  /\ UNCHANGED <<fsvars, argvars, run, html_files, size_str, page_css,
                 pdf_path, documents, all_pages, renders, first_render, writes,
                 out, prev>>

\* Lines 45-50: no book ID: the first subdirectory and its name.
ResolveFirstSubdir ==
  /\ pc = "resolve"
  /\ ~Truthy(book_id)
  /\ BaseIsDir(a_output_dir)
  /\ Subdirs(a_output_dir, order) # <<>>
  /\ book_dir' = Subdirs(a_output_dir, order)[1]
  /\ book_id' = Subdirs(a_output_dir, order)[1].name
  /\ pc' = "check_dir"
  /\ UNCHANGED <<fsvars, argvars, run, html_files, size_str, page_css,
                 pdf_path, documents, all_pages, renders, first_render, writes,
                 out, prev>>

\* The check of line 52 as a test for a directory.
DirNotFoundIsDir ==
  /\ pc = "check_dir"
  /\ KindOf(book_dir) # "dir"
  /\ out' = Append(out, "Directory not found")
  /\ pc' = "aborted"
  /\ UNCHANGED <<fsvars, argvars, run, locals, prev>>

\* Lines 52-54: nothing exists at book_dir.
DirNotFound ==
  /\ pc = "check_dir"
  /\ ~PathExists(book_dir)
  /\ out' = Append(out, "Directory not found")
  /\ pc' = "aborted"
  /\ UNCHANGED <<fsvars, argvars, run, locals, prev>>

\* Lines 52, 56-57: book_dir exists.
DirFound ==
  /\ pc = "check_dir"
  /\ PathExists(book_dir)
  /\ out' = out \o <<"Processing book", "Book directory">>
  /\ pc' = "enumerate"
  /\ UNCHANGED <<fsvars, argvars, run, locals, prev>>

\* The empty list reported without the return of line 64.
NoHtmlFilesNoReturn ==
  /\ pc = "enumerate"
  /\ HtmlFilesOf(book_dir) = <<>>
  /\ html_files' = HtmlFilesOf(book_dir)
  /\ out' = Append(out, "No HTML files found")
  /\ pc' = "size"
  /\ UNCHANGED <<fsvars, argvars, run, book_id, book_dir, size_str, page_css,
                 pdf_path, documents, all_pages, renders, first_render, writes,
                 prev>>

\* Lines 60-64: no file matches.
NoHtmlFiles ==
  /\ pc = "enumerate"
  /\ HtmlFilesOf(book_dir) = <<>>
  /\ html_files' = HtmlFilesOf(book_dir)
  /\ out' = Append(out, "No HTML files found")
  /\ pc' = "aborted"
  /\ UNCHANGED <<fsvars, argvars, run, book_id, book_dir, size_str, page_css,
                 pdf_path, documents, all_pages, renders, first_render, writes,
                 prev>>

\* Lines 60-66: the sorted files.
Enumerate ==
  /\ pc = "enumerate"
  /\ HtmlFilesOf(book_dir) # <<>>
  /\ html_files' = HtmlFilesOf(book_dir)
  /\ out' = Append(out, "Found")
  /\ pc' = "size"
  /\ UNCHANGED <<fsvars, argvars, run, book_id, book_dir, size_str, page_css,
                 pdf_path, documents, all_pages, renders, first_render, writes,
                 prev>>

\* Lines 68-83.
ResolvePageSize ==
  /\ pc = "size"
  /\ size_str' = ResolveSize(a_page_size)
  /\ pc' = "css"
  /\ UNCHANGED <<fsvars, argvars, run, book_id, book_dir, html_files, page_css,
                 pdf_path, documents, all_pages, renders, first_render, writes,
                 out, prev>>

\* Lines 86-102: the style sheet and the target path.
BuildCss ==
  /\ pc = "css"
  /\ page_css' = MakeCss(size_str, a_margin)
  /\ out' = out \o <<"Page size", "Margins">>
  /\ pdf_path' = PathOf(a_output_dir, PdfName(book_id))
  /\ documents' = <<>>
  /\ pc' = "construct"
  /\ UNCHANGED <<fsvars, argvars, run, book_id, book_dir, html_files, size_str,
                 all_pages, renders, first_render, writes, prev>>

\* Lines 104-107: one pass of the loop over html_files.
Construct ==
  /\ pc = "construct"
  /\ Len(documents) < Len(html_files)
  /\ out' = Append(out, "Processing")
  /\ documents' = Append(documents, html_files[Len(documents) + 1])
  /\ UNCHANGED <<fsvars, argvars, pc, run, book_id, book_dir, html_files,
                 size_str, page_css, pdf_path, all_pages, renders, first_render,
                 writes, prev>>

\* Lines 104, 110-113: the loop ends; documents is not empty.
ConstructDone ==
  /\ pc = "construct"
  /\ Len(documents) = Len(html_files)
  /\ documents # <<>>
  /\ out' = Append(out, "Rendering PDF...")
  /\ all_pages' = <<>>
  /\ pc' = "render"
  /\ UNCHANGED <<fsvars, argvars, run, book_id, book_dir, html_files, size_str,
                 page_css, pdf_path, documents, renders, first_render, writes,
                 prev>>

\* write_pdf indented into the loop of lines 114-116: a PDF after every
\* document.
RenderOneAndWrite ==
  /\ pc = "render"
  /\ Len(renders) < Len(documents)
  /\ LET doc == documents[Len(renders) + 1] IN
       /\ engine[doc] # EngineFails
       /\ renders' = Append(renders, [doc |-> doc, css |-> page_css])
       /\ all_pages' = all_pages \o PagesOf(doc)
       /\ writes' = Append(writes, [path |-> pdf_path,
                                    pages |-> all_pages \o PagesOf(doc),
                                    carrier |-> Len(renders) + 1])
  /\ UNCHANGED <<fsvars, argvars, pc, run, book_id, book_dir, html_files,
                 size_str, page_css, pdf_path, documents, first_render,
                 out, prev>>

\* Lines 114-116: one pass of the loop over documents.
RenderOne ==
  /\ pc = "render"
  /\ Len(renders) < Len(documents)
  /\ LET doc == documents[Len(renders) + 1] IN
       /\ engine[doc] # EngineFails
       /\ renders' = Append(renders, [doc |-> doc, css |-> page_css])
       /\ all_pages' = all_pages \o PagesOf(doc)
  /\ UNCHANGED <<fsvars, argvars, pc, run, book_id, book_dir, html_files,
                 size_str, page_css, pdf_path, documents, first_render, writes,
                 out, prev>>

\* Line 115: the engine raises; nothing catches it.
RenderRaises ==
  /\ pc = "render"
  /\ Len(renders) < Len(documents)
  /\ engine[documents[Len(renders) + 1]] = EngineFails
  /\ pc' = "raised"
  /\ UNCHANGED <<fsvars, argvars, run, locals, out, prev>>

\* Line 118 without its stylesheets argument.
CarrierRenderNoCss ==
  /\ pc = "render"
  /\ Len(renders) = Len(documents)
  /\ renders' = Append(renders, [doc |-> documents[1], css |-> NoCss])
  /\ first_render' = [id |-> Len(renders) + 1, pages |-> all_pages]
  /\ pc' = "write"
  /\ UNCHANGED <<fsvars, argvars, run, book_id, book_dir, html_files, size_str,
                 page_css, pdf_path, documents, all_pages, writes, out, prev>>

\* The loop's first render result kept as the carrier, with no second render
\* of the first document.
CarrierReuse ==
  /\ pc = "render"
  /\ Len(renders) = Len(documents)
  /\ first_render' = [id |-> 1, pages |-> all_pages]
  /\ pc' = "write"
  /\ UNCHANGED <<fsvars, argvars, run, book_id, book_dir, html_files, size_str,
                 page_css, pdf_path, documents, all_pages, renders, writes, out,
                 prev>>

\* Lines 118-119: the first document is rendered again, and the result is
\* given all the pages.
CarrierRender ==
  /\ pc = "render"
  /\ Len(renders) = Len(documents)
  /\ renders' = Append(renders, [doc |-> documents[1], css |-> page_css])
  /\ first_render' = [id |-> Len(renders) + 1, pages |-> all_pages]
  /\ pc' = "write"
  /\ UNCHANGED <<fsvars, argvars, run, book_id, book_dir, html_files, size_str,
                 page_css, pdf_path, documents, all_pages, writes, out, prev>>

\* Lines 120-123: write_pdf creates or replaces output/<book_id>.pdf.
WritePdf ==
  /\ pc = "write"
  /\ writes' = Append(writes, [path |-> pdf_path, pages |-> first_render.pages,
                               carrier |-> first_render.id])
  /\ kind' = [kind EXCEPT ![pdf_path.name] = "file"]
  /\ order' \in OrdersAfterCreate(order, pdf_path.name)
  /\ out' = out \o <<"PDF created successfully", "Total pages">>
  /\ pc' = "done"
  /\ UNCHANGED <<baseKind, contents, engine, argvars, run, book_id, book_dir,
                 html_files, size_str, page_css, pdf_path, documents, all_pages,
                 renders, first_render, prev>>

\* What a finished call leaves to compare the next one with.
Outcome ==
  [pc |-> pc, book_id |-> book_id, book_dir |-> book_dir,
   html_files |-> html_files, writes |-> writes, out |-> out]

Finished == pc \in {"done", "aborted", "raised"}

\* merge_htmls_to_pdf is called again with the same arguments.
CallAgain ==
  /\ Finished
  /\ run < MaxRuns
  /\ prev' = Outcome
  /\ EnterCall
  /\ out' = <<>>
  /\ run' = run + 1
  /\ pc' = "resolve"
  /\ UNCHANGED <<fsvars, argvars>>

Next ==
  \/ StartupExit
  \/ StartupCall
  \/ ResolveGiven
  \/ ResolveIterdirRaises
  \/ ResolveNoSubdirs
  \/ ResolveFirstSubdir
  \/ DirNotFound
  \/ DirFound
  \/ NoHtmlFiles
  \/ Enumerate
  \/ ResolvePageSize
  \/ BuildCss
  \/ Construct
  \/ ConstructDone
  \/ RenderOne
  \/ RenderRaises
  \/ CarrierRender
  \/ WritePdf
  \/ CallAgain

Spec == Init /\ [][Next]_vars

(* ------------- the page-size resolution over many inputs --------------- *)
\* Numbers given as width and height.
SizeNumbers == {PyInt(0), PyInt(100), PyInt(200), PyFloat(1000), PyFloat(2159)}
SizeInputs ==
  {SizeNone}
    \cup {SizeStr(n) : n \in PresetNames \cup {"a4", "10in 12in", ""}}
    \cup {SizePair(w, h) : w \in SizeNumbers, h \in SizeNumbers}

\* One book, output/b1 with the single file 2.html, merged by the script's
\* call with every page size and two margins.
InitSize ==
  /\ baseKind = "dir"
  /\ kind = [e \in EntryNames |-> IF e = "b1" THEN "dir" ELSE "absent"]
  /\ order = <<"b1">>
  /\ contents = [e \in EntryNames |-> IF e = "b1" THEN {F2html} ELSE {}]
  /\ engine = [f \in FileNames |-> 1]
  /\ bookId = "b1"
  /\ a_output_dir = OutputDir
  /\ a_book_id = "b1"
  /\ a_page_size \in SizeInputs
  /\ a_margin \in {"0", "1cm"}
  /\ pc = "startup"
  /\ run = 0
  /\ InitLocals
  /\ out = <<>>
  /\ prev = NoPrev

NextSize ==
  \/ StartupCall
  \/ ResolveGiven
  \/ DirFound
  \/ Enumerate
  \/ ResolvePageSize
  \/ BuildCss
  \/ Construct
  \/ ConstructDone
  \/ RenderOne
  \/ CarrierRender
  \/ WritePdf

SpecSize == InitSize /\ [][NextSize]_vars

(* ------------------------- shared by the claims ------------------------ *)

\* The HTML files of directory d, as the pattern "*.html" selects them.
HtmlIn(d) == {f \in Listdir(d) : GlobMatch(f)}

RECURSIVE SumPages(_)
SumPages(S) ==
  IF S = {} THEN 0
  ELSE LET f == CHOOSE x \in S : TRUE IN engine[f] + SumPages(S \ {f})

\* Position of the first directory among the entries of the base directory.
FirstDirIndex ==
  CHOOSE i \in 1..Len(order) :
    /\ kind[order[i]] = "dir"
    /\ \A j \in 1..(i - 1) : kind[order[j]] # "dir"
HasSubdir == \E i \in 1..Len(order) : kind[order[i]] = "dir"

\* The call has gone past the stage at pc value p.
Rank(p) ==
  CASE p = "startup" -> 0
    [] p = "resolve" -> 1
    [] p = "check_dir" -> 2
    [] p = "enumerate" -> 3
    [] p = "size" -> 4
    [] p = "css" -> 5
    [] p = "construct" -> 6
    [] p = "render" -> 7
    [] p = "write" -> 8
    [] p = "done" -> 9
    [] OTHER -> 10

\* The current call has left the stage at pc value p behind.
Past(p) == run >= 1 /\ Rank(pc) > Rank(p)

(* ------------------------------- C1 ------------------------------------ *)
\* C1: when a run has written the PDF, the pages handed to write_pdf are
\* exactly the pages of the directory's HTML files: every page of every file
\* once, the count the sum of the per-file counts, the pages of a file whose
\* name is lexicographically smaller before those of a larger one, and the
\* pages of one file in their own order.
ThmC1 ==
  pc = "done" =>
    /\ Len(writes) = 1
    /\ LET ps == writes[1].pages
           files == HtmlIn(book_dir)
       IN /\ Len(ps) = SumPages(files)
          /\ \A f \in files : \A k \in 1..engine[f] :
               Cardinality({i \in 1..Len(ps) : ps[i] = [file |-> f, n |-> k]}) = 1
          /\ \A i \in 1..Len(ps) : \A j \in 1..Len(ps) :
               i < j => \/ LexLess(ps[i].file, ps[j].file)
                        \/ ps[i].file = ps[j].file /\ ps[i].n < ps[j].n

\* Two files whose name order ("10.html" before "2.html") is not their numeric
\* order, with different page counts, merged into one PDF.
WitC1 ==
  /\ pc = "done"
  /\ html_files = <<F10html, F2html>>
  /\ engine[F10html] = 1 /\ engine[F2html] = 2
  /\ Len(writes[1].pages) = 3

(* ------------------------------- C2 ------------------------------------ *)
\* The text of each preset and of each number, written out.
PresetText ==
  [n \in {"A4", "A5", "Letter", "Legal", "Tabloid"} |->
     CASE n = "A4" -> "210mm 297mm"
       [] n = "A5" -> "148mm 210mm"
       [] n = "Letter" -> "215.9mm 279.4mm"
       [] n = "Legal" -> "215.9mm 355.6mm"
       [] n = "Tabloid" -> "279.4mm 431.8mm"]
NumberText(x) ==
  CASE x = PyInt(0) -> "0"
    [] x = PyInt(100) -> "100"
    [] x = PyInt(200) -> "200"
    [] x = PyFloat(1000) -> "100.0"
    [] x = PyFloat(2159) -> "215.9"

\* C2: once resolved, the size string is "595px 841px" for None, the
\* preset's "{w}mm {h}mm" for a key of PAGE_SIZES, the string itself for any
\* other string, and "{width}mm {height}mm" for a pair.
ThmC2 ==
  (run >= 1 /\ pc \in {"css", "construct", "render", "write", "done"}) =>
    /\ a_page_size.t = "none" => size_str = "595px 841px"
    /\ (a_page_size.t = "str" /\ a_page_size.s \in DOMAIN PresetText) =>
         size_str = PresetText[a_page_size.s]
    /\ (a_page_size.t = "str" /\ a_page_size.s \notin DOMAIN PresetText) =>
         size_str = a_page_size.s
    /\ a_page_size.t = "pair" =>
         size_str = NumberText(a_page_size.w) \o "mm "
                      \o NumberText(a_page_size.h) \o "mm"

\* A preset with fractional millimetres went into the written PDF's style
\* sheet.
WitC2 ==
  /\ pc = "done"
  /\ a_page_size = SizeStr("Letter")
  /\ size_str = "215.9mm 279.4mm"
  /\ page_css.size = "215.9mm 279.4mm"

(* ------------------------------- C3 ------------------------------------ *)
\* C3: once the book directory is resolved and found to exist, if no entry of
\* it matches *.html the run has printed "No HTML files found" as its last
\* message and returned, with no document constructed or rendered and no PDF
\* written.
ThmC3 ==
  (Past("enumerate") /\ "Book directory" \in Range(out)
     /\ HtmlIn(book_dir) = {}) =>
    /\ pc = "aborted"
    /\ Last(out) = "No HTML files found"
    /\ documents = <<>> /\ renders = <<>> /\ writes = <<>>
    /\ \A b \in Books : kind[PdfName(b)] = "absent"

\* A directory that holds files, none of them matching, was enumerated.
WitC3 ==
  /\ pc = "aborted"
  /\ Last(out) = "No HTML files found"
  /\ Listdir(book_dir) = {F2htm, FHidden}

(* ------------------------------- C4 ------------------------------------ *)
\* C4: when a (non-empty) book ID is given, the target directory is
\* base/book_id.  If nothing exists at that path, the run has printed
\* "Directory not found" as its only message and returned without enumerating
\* HTML files, constructing or rendering a document or writing a PDF.  (The
\* code's test is Path.exists: a regular file at the path counts as existing,
\* and the run then ends with "No HTML files found", also without a PDF.)
ThmC4 ==
  (Truthy(a_book_id) /\ Past("resolve")) =>
    /\ book_dir = PathOf(a_output_dir, a_book_id)
    /\ book_id = a_book_id
    /\ (Past("check_dir") /\ KindOf(book_dir) = "absent") =>
         /\ pc = "aborted"
         /\ out = <<"Directory not found">>
         /\ html_files = <<>> /\ documents = <<>>
         /\ renders = <<>> /\ writes = <<>>
         /\ \A b \in Books : kind[PdfName(b)] = "absent"
    /\ (Past("enumerate") /\ KindOf(book_dir) = "file") =>
         /\ pc = "aborted"
         /\ Last(out) = "No HTML files found"
         /\ renders = <<>> /\ writes = <<>>

\* A book ID was given whose directory is absent from an existing base
\* directory that holds another book, and the call has returned.
WitC4 ==
  /\ pc = "aborted"
  /\ a_book_id = "b1" /\ a_output_dir = OutputDir
  /\ kind["b1"] = "absent" /\ kind["b2"] = "dir" /\ contents["b2"] # {}
  /\ out = <<"Directory not found">>

(* ------------------------------- C5 ------------------------------------ *)
\* C5: when the book ID is omitted (None or empty) and the base directory
\* exists, the target is the first entry in iteration order that is a
\* directory and the book ID is that entry's name, so that a PDF, if written,
\* goes to base/<that name>.pdf; with no subdirectory the run has printed
\* "No subdirectories found" and returned without writing a PDF.
ThmC5 ==
  (~Truthy(a_book_id) /\ BaseIsDir(a_output_dir) /\ Past("resolve")) =>
    IF HasSubdir
    THEN /\ book_dir = PathOf(a_output_dir, order[FirstDirIndex])
         /\ book_id = order[FirstDirIndex]
         /\ pc = "done" =>
              /\ Len(writes) = 1
              /\ writes[1].path = PathOf(a_output_dir, PdfName(order[FirstDirIndex]))
              /\ kind[PdfName(order[FirstDirIndex])] = "file"
    ELSE /\ pc = "aborted"
         /\ out = <<"No subdirectories found">>
         /\ writes = <<>>
         /\ \A b \in Books : kind[PdfName(b)] = "absent"

\* No book ID was given, the base directory lists a regular file before its
\* only subdirectory, and that subdirectory's PDF was written.
WitC5 ==
  /\ pc = "done" /\ run = 1
  /\ a_book_id = NoBookId
  /\ kind["b1"] = "file" /\ order[1] = "b1"
  /\ book_id = "b2"
  /\ writes[1].path = PathOf(OutputDir, "b2.pdf")

(* ------------------------------- C6 ------------------------------------ *)
\* C6: if nothing exists at output/<bookId> at start-up, the process logs
\* the error and exits: merge_htmls_to_pdf is never entered, so no book
\* directory is resolved, no file is enumerated or rendered and no PDF is
\* written.
ThmC6 ==
  ~PathExists(PathOf(OutputDir, bookId)) =>
    /\ pc \in {"startup", "exited"}
    /\ pc = "exited" => out = <<"Output folder does not exist">>
    /\ run = 0
    /\ book_dir = NoPath /\ html_files = <<>> /\ documents = <<>>
    /\ renders = <<>> /\ writes = <<>>
    /\ \A b \in Books : kind[PdfName(b)] = "absent"

\* The process has exited although the base directory holds another book
\* that could have been merged.
WitC6 ==
  /\ pc = "exited"
  /\ bookId = "b1" /\ kind["b1"] = "absent"
  /\ kind["b2"] = "dir" /\ contents["b2"] = {F2html}
  /\ a_book_id = NoBookId /\ a_output_dir = OutputDir

(* ------------------------------- C7 ------------------------------------ *)
\* C7: a call made again with the same arguments on the same book directory
\* ends as the call before it did: the same book directory and book ID, the
\* same HTML files in the same order, and the same write_pdf call (same path,
\* same pages in the same order), although the first call's PDF is now an
\* entry of the base directory.
ThmC7 == (run >= 2 /\ Finished) => Outcome = prev

\* The second call has written its PDF after resolving the book directory by
\* iteration, with the first call's PDF listed first in the base directory.
WitC7 ==
  /\ run = 2 /\ pc = "done"
  /\ a_book_id = NoBookId
  /\ order[1] = "b1.pdf"
  /\ book_id = "b1"
  /\ Len(writes[1].pages) >= 2

(* ------------------------------- C8 ------------------------------------ *)
\* A step of one call moves to a later stage, or stays in one of the two
\* loops and advances it.
ForwardStep ==
  (run' = run /\ run >= 1) =>
    \/ Rank(pc') > Rank(pc)
    \/ /\ pc' = pc /\ pc = "construct"
       /\ Len(documents') = Len(documents) + 1
    \/ /\ pc' = pc /\ pc = "render"
       /\ Len(renders') = Len(renders) + 1

\* write_pdf is called only as the step into "done", once every file of
\* html_files has been rendered, and to base/<book_id>.pdf.
WriteStep ==
  writes' # writes =>
    \/ writes' = <<>>
    \/ /\ pc = "write" /\ pc' = "done"
       /\ writes = <<>> /\ Len(writes') = 1
       /\ writes'[1].path = PathOf(a_output_dir, PdfName(book_id))
       /\ Len(renders) >= Len(html_files)
       /\ \A i \in 1..Len(html_files) : renders[i].doc = html_files[i]

\* A call ends with the PDF written once, or aborted with its reason as the
\* last message, or with the engine's exception raised; write_pdf was called
\* in the first case only.
EndStates ==
  /\ pc = "done" => Len(writes) = 1 /\ Last(out) = "Total pages"
  /\ pc # "done" => writes = <<>>
  /\ pc = "aborted" =>
       Last(out) \in {"No subdirectories found", "Directory not found",
                      "No HTML files found"}
  /\ pc = "exited" => Last(out) = "Output folder does not exist"

\* C8: every call is one forward pass through resolve, check, enumerate,
\* size, style sheet, construct, render and write, no stage entered twice; it
\* ends either with write_pdf called exactly once, to base/<book_id>.pdf and
\* after all files were rendered, or aborted with a printed reason (or the
\* engine's exception) and write_pdf never called.
ThmC8 == [](EndStates) /\ [][ForwardStep /\ WriteStep]_vars

\* A call over two files has ended with its single write_pdf call.
WitC8 ==
  /\ pc = "done"
  /\ Len(html_files) = 2 /\ Len(renders) = 3
  /\ Len(writes) = 1

(* ------------------------------- C9 ------------------------------------ *)
\* Within a call, the size string and the style sheet are each set once.
SetOnce ==
  (run' = run /\ run >= 1) =>
    /\ pc # "size" => size_str' = size_str
    /\ pc # "css" => page_css' = page_css

\* The style sheet is built from the size string and the margin, with the
\* html/body margin and padding reset to 0, and every render call made so far,
\* the carrier's included, was given it.
OneDirective ==
  (run >= 1 /\ "Margins" \in Range(out)) =>
    /\ page_css = [size |-> size_str, margin |-> a_margin,
                   html_body_margin |-> "0", html_body_padding |-> "0"]
    /\ \A i \in 1..Len(renders) : renders[i].css = page_css
    /\ first_render # NoRender => renders[first_render.id].css = page_css

\* C9: one size string and one style sheet per call, and every render call
\* of the call, the one producing the carrier included, is given that style
\* sheet.
ThmC9 == [](OneDirective) /\ [][SetOnce]_vars

\* Two files and the carrier were rendered with a preset's size.
WitC9 ==
  /\ pc = "done"
  /\ Len(renders) = 3
  /\ a_page_size = SizeStr("A4")
  /\ renders[3].css.size = "210mm 297mm"

(* ------------------------------- C10 ----------------------------------- *)
\* C10 as claimed: N files give exactly N render results, one per file, and
\* the carrier is the first result of that pass.
CexC10 ==
  (run >= 1 /\ pc \in {"write", "done"}) =>
    /\ Len(renders) = Len(html_files)
    /\ \A i \in 1..Len(html_files) : renders[i].doc = html_files[i]
    /\ first_render.id = 1

\* C10 amended: N files give N + 1 render calls, all with the shared style
\* sheet: one per file in file order, then a second one of the first file,
\* and the carrier is the result of that second render.
ThmC10 ==
  (run >= 1 /\ pc \in {"write", "done"}) =>
    /\ Len(renders) = Len(html_files) + 1
    /\ \A i \in 1..Len(html_files) : renders[i].doc = html_files[i]
    /\ Last(renders).doc = html_files[1]
    /\ first_render.id = Len(html_files) + 1
    /\ \A i \in 1..Len(renders) : renders[i].css = page_css

\* Two files were rendered, then the first again as the carrier.
WitC10 ==
  /\ pc = "write"
  /\ html_files = <<F10html, F2html>>
  /\ Len(renders) = 3 /\ renders[3].doc = F10html
  /\ first_render.id = 3
====
